---- MODULE Spec2Model ----
(***************************************************************************)
(* HighsPathSeparator::separateLpSolution (src/src/mip/HighsPathSeparator  *)
(* .cpp): row classification, substitution detection, in-arc/out-arc       *)
(* construction and the path-aggregation loop, as a state machine.         *)
(*                                                                         *)
(* Numbers are exact rationals <<n, d>> with d > 0 in lowest terms;        *)
(* <<1, 0>> and <<-1, 0>> are +infinity and -infinity (kHighsInf and the   *)
(* result of a division by zero), <<0, 0>> is NaN, the value without       *)
(* order that 0 x infinity, infinity - infinity and 0 / 0 give.            *)
(***************************************************************************)
EXTENDS Integers, Sequences, FiniteSets, TLC

----------------------------------------------------------------------------
(* Exact arithmetic                                                        *)

Abs(n) == IF n < 0 THEN -n ELSE n

Sgn(n) == IF n < 0 THEN -1 ELSE IF n = 0 THEN 0 ELSE 1

RECURSIVE Gcd(_, _)
Gcd(a, b) == IF b = 0 THEN a ELSE Gcd(b, a % b)

\* the rational n/d, d >= 0, in lowest terms; d = 0 gives a signed infinity,
\* or <<0, 0>> for n = 0
Q(n, d) ==
  IF d = 0 THEN <<Sgn(n), 0>>
  ELSE LET g == Gcd(Abs(n), d) IN <<n \div g, d \div g>>

R(n) == <<n, 1>>

Zero == R(0)

kHighsInf == <<1, 0>>

\* the value without order
NaN == <<0, 0>>

IsNaN(a) == a = NaN

RNeg(a) == <<-a[1], a[2]>>

RAbs(a) == <<Abs(a[1]), a[2]>>

\* IEEE addition: an infinity absorbs a finite number and an infinity of its
\* own sign, infinities of opposite signs give NaN
RAdd(a, b) ==
  IF IsNaN(a) \/ IsNaN(b) THEN NaN
  ELSE IF a[2] = 0 THEN (IF b[2] = 0 /\ b[1] # a[1] THEN NaN ELSE a)
  ELSE IF b[2] = 0 THEN b
  ELSE Q(a[1] * b[2] + b[1] * a[2], a[2] * b[2])

RSub(a, b) == RAdd(a, RNeg(b))

\* IEEE multiplication: 0 x infinity is NaN
RMul(a, b) == Q(a[1] * b[1], a[2] * b[2])

\* IEEE division: x / 0 is a signed infinity for x # 0, 0 / 0 and
\* infinity / infinity are NaN, and so is every quotient with a NaN in it
RDiv(a, b) ==
  IF IsNaN(a) \/ IsNaN(b) THEN NaN
  ELSE IF b[1] = 0 THEN <<Sgn(a[1]), 0>>
  ELSE Q(a[1] * b[2] * Sgn(b[1]), a[2] * Abs(b[1]))

\* a comparison with NaN on either side is false
RLt(a, b) ==
  IF IsNaN(a) \/ IsNaN(b) THEN FALSE
  ELSE IF a[2] = 0 /\ b[2] = 0 THEN a[1] < b[1]
  ELSE a[1] * b[2] < b[1] * a[2]

RLe(a, b) == (a = b /\ ~IsNaN(a)) \/ RLt(a, b)

RGt(a, b) == RLt(b, a)

RGe(a, b) == RLe(b, a)

----------------------------------------------------------------------------
(* Bounds of the model and program constants                               *)

\* rows and columns of the relaxation (lp.num_row_, lp.num_col_)
NumRow == 4

NumCol == 3

\* options_mip_->random_seed ranges over 0..MaxSeed
MaxSeed == 1

\* getNumLpIterations() ranges over 0..MaxIters
MaxIters == 1

\* invocations of separateLpSolution in one behaviour of SpecRepro
MaxCalls == 3

\* rounds of the loop of line 189 that fold in a row with the weight NaN, up
\* to which a path is followed
MaxRepeat == 3

\* enum class RowType
kUnusuable == -2

kGeq == -1

kEq == 0

kLeq == 1

maxPathLen == 6

\* mipdata_->feastol, the feasibility tolerance of the surrounding solver
feastol == <<1, 2>>

Rows == 0 .. NumRow - 1

Cols == 0 .. NumCol - 1

\* indices of the aggregated row: the columns, then one slack per row
AggInds == 0 .. NumCol + NumRow - 1

----------------------------------------------------------------------------
(* The relaxations the model is run on.  A row is assembled from a         *)
(* template placed at row r: it touches the columns r, r+1, r+2 (cyclic).  *)
(* The templates tie and eq0 store an entry whose coefficient is 0.        *)

NoEnt == [nz |-> FALSE, v |-> 0]

\* the stored entries of one row: ents is a set of <<column, coefficient>>
RowOf(ents) ==
  [c \in Cols |->
     IF \E e \in ents : e[1] = c
     THEN [nz |-> TRUE, v |-> (CHOOSE e \in ents : e[1] = c)[2]]
     ELSE NoEnt]

TemplateNames == {"geq", "leq", "eq2", "eq1", "eq0", "free", "wide", "tie"}

Template(t, r) ==
  LET a == r % NumCol
      b == (r + 1) % NumCol
      c == (r + 2) % NumCol
      minf == RNeg(kHighsInf)
  IN CASE t = "geq"  -> [lo |-> Zero, up |-> kHighsInf, val |-> Zero, dual |-> R(1),
                         a |-> RowOf({<<a, -1>>, <<b, 1>>})]
       [] t = "leq"  -> [lo |-> minf, up |-> Zero, val |-> Zero, dual |-> R(-1),
                         a |-> RowOf({<<a, 1>>, <<b, -1>>})]
       [] t = "eq2"  -> [lo |-> Zero, up |-> Zero, val |-> Zero, dual |-> R(1),
                         a |-> RowOf({<<a, 1>>, <<b, 1>>})]
       [] t = "eq1"  -> [lo |-> R(1), up |-> R(1), val |-> R(1), dual |-> Zero,
                         a |-> RowOf({<<a, 2>>})]
       [] t = "eq0"  -> [lo |-> Zero, up |-> Zero, val |-> Zero, dual |-> R(1),
                         a |-> RowOf({<<a, 0>>, <<b, 1>>})]
       [] t = "free" -> [lo |-> minf, up |-> kHighsInf, val |-> Zero, dual |-> Zero,
                         a |-> RowOf({<<a, 1>>, <<b, 1>>})]
       [] t = "wide" -> [lo |-> Zero, up |-> R(4), val |-> Zero, dual |-> R(1),
                         a |-> RowOf({<<a, -3>>, <<b, 1>>, <<c, 1>>})]
       [] t = "tie"  -> [lo |-> Zero, up |-> R(1), val |-> Q(1, 2), dual |-> R(-1),
                         a |-> RowOf({<<a, 1>>, <<b, -3>>, <<c, 0>>})]
       [] t = "half" -> [lo |-> Zero, up |-> kHighsInf, val |-> Zero, dual |-> Q(1, 2),
                         a |-> RowOf({<<a, -1>>, <<b, 1>>})]
       [] t = "null" -> [lo |-> Zero, up |-> kHighsInf, val |-> Zero, dual |-> Zero,
                         a |-> RowOf({<<a, 1>>, <<b, -1>>})]

\* variable type and bound distance of every column
ColProfileNames == {"cont", "mixed", "fixed", "near", "lead"}

ColProfile(p, c) ==
  CASE p = "cont"  -> [type |-> "C", dist |-> R(1)]
    [] p = "mixed" -> IF c % 3 = 2 THEN [type |-> "I", dist |-> R(1)]
                      ELSE [type |-> "C", dist |-> R(1 + (c % 3))]
    [] p = "fixed" -> IF c % 3 = 1 THEN [type |-> "I", dist |-> R(1)]
                      ELSE [type |-> "C", dist |-> Zero]
    [] p = "near"  -> [type |-> "C", dist |-> Q(4 - (c % 3), 2)]
    [] p = "lead"  -> IF c % 3 = 0 THEN [type |-> "I", dist |-> R(1)]
                      ELSE [type |-> "C", dist |-> R(2 - (c % 3))]

\* the cut generator's answers: <<form, len>> succeeds on the given form of
\* the aggregation once the path has at least len rows; "none" never does
CutPlans == {<<"none", 0>>, <<"compl", 1>>, <<"raw", 2>>}

Relaxation(ts, p) ==
  [row_lower |-> [r \in Rows |-> Template(ts[r], r).lo],
   row_upper |-> [r \in Rows |-> Template(ts[r], r).up],
   row_value |-> [r \in Rows |-> Template(ts[r], r).val],
   row_dual  |-> [r \in Rows |-> Template(ts[r], r).dual],
   a         |-> [r \in Rows |-> Template(ts[r], r).a],
   type      |-> [c \in Cols |-> ColProfile(p, c).type],
   dist      |-> [c \in Cols |-> ColProfile(p, c).dist]]

\* the assignments of templates to rows in which the last row is a free row
\* and the rows before it are assembled from names
PaddedRows(names) ==
  {ts \in [Rows -> names \cup {"free"}] :
     /\ ts[NumRow - 1] = "free"
     /\ \A r \in 0 .. NumRow - 2 : ts[r] \in names}

\* a relaxation in which one column is stored in every row: in the first row
\* with a negative coefficient, in the later rows with the coefficient 1 and
\* the duals 1, 1/2 and 0
DriftRows ==
  [r \in Rows |-> IF r = 0 THEN "geq" ELSE IF r = 1 THEN "wide"
                  ELSE IF r = 2 THEN "half" ELSE "null"]

Relaxations ==
  {Relaxation(ts, p) : ts \in PaddedRows(TemplateNames), p \in ColProfileNames}
    \cup {Relaxation(DriftRows, "cont")}

----------------------------------------------------------------------------
(* State                                                                   *)

VARIABLES
  lp,                 \* the relaxation: bounds, solution, matrix, columns
  random_seed,        \* mip.options_mip_->random_seed
  numLpIterations,    \* lpRelaxation.getNumLpIterations()
  cutPlan,            \* the cut generator's answers for this relaxation
  randgen,            \* HighsPathSeparator::randgen, kept between calls
  lpAggregator,       \* the aggregated row, a value per index of AggInds
  cutpool,            \* number of cuts the cut generator has added
  pc,                 \* position in separateLpSolution
  rowtype,
  numContinuous,
  colSubstitutions,
  inArcRows,
  colInArcs,
  outArcRows,
  colOutArcs,
  i,                  \* the seed-row loop counter (line 169)
  currPathLen,
  baseRowInds,
  baseRowVals,
  bestOutArcCol,
  outArcColVal,
  outArcColBoundDist,
  bestInArcCol,
  inArcColVal,
  inArcColBoundDist,
  call,               \* invocations started so far
  trace,              \* history: addRow, generateCut, bit and clear of this call
  path,               \* history: the rows folded in for the current seed row
  rowtype0,           \* history: the classification of lines 43-65
  scanned,            \* history: the columns whose arc range the last step read
  firstRun            \* history: iteration count and trace of the first call

inputs == <<lp, random_seed, cutPlan>>

locals == <<rowtype, numContinuous, colSubstitutions, inArcRows, colInArcs,
            outArcRows, colOutArcs>>

round == <<baseRowInds, baseRowVals, bestOutArcCol, outArcColVal,
           outArcColBoundDist, bestInArcCol, inArcColVal, inArcColBoundDist>>

vars == <<inputs, numLpIterations, randgen, lpAggregator, cutpool, pc, locals, i,
          currPathLen, round, call, trace, path, rowtype0, scanned, firstRun>>

----------------------------------------------------------------------------
(* Collaborators: relaxation, transformed view, random generator,          *)
(* aggregator, cut generator                                               *)

\* the ascending sequence of the members of a finite set of integers
Ascending(S) ==
  [k \in 1 .. Cardinality(S) |->
     CHOOSE x \in S : Cardinality({y \in S : y < x}) = k - 1]

\* lp.a_index_ / lp.a_value_ between a_start_[col] and a_start_[col + 1]
ColEntries(col) ==
  LET rs == Ascending({r \in Rows : lp.a[r][col].nz})
  IN [k \in 1 .. Len(rs) |-> <<rs[k], R(lp.a[rs[k]][col].v)>>]

\* lpRelaxation.getRow(row, len, rowinds, rowvals)
getRow(row) ==
  LET cs == Ascending({c \in Cols : lp.a[row][c].nz})
  IN [k \in 1 .. Len(cs) |-> <<cs[k], R(lp.a[row][cs[k]].v)>>]

\* mip.mipdata_->continuous_cols
continuous_cols == Ascending({c \in Cols : lp.type[c] = "C"})

\* transLp.boundDistance(col)
boundDistance(col) == lp.dist[col]

\* lpRelaxation.isColIntegral(col)
isColIntegral(col) == lp.type[col] # "C"

\* HighsRandom::initialise(seed): a generator with 16 states
initialise(seed) == seed % 16

\* HighsRandom::bit(): the generator's next state and the bit it returns
NextRand(s) == (5 * s + 3) % 16

RandBit(s) == NextRand(s) >= 8

\* HighsLpAggregator::addRow(row, weight): weight x row, and weight on the
\* row's own slack index lp.num_col_ + row
addRow(agg, row, weight) ==
  [k \in AggInds |->
     IF k < NumCol
     THEN IF lp.a[row][k].nz
          THEN RAdd(agg[k], RMul(weight, R(lp.a[row][k].v)))
          ELSE agg[k]
     ELSE IF k = NumCol + row THEN RAdd(agg[k], weight) ELSE agg[k]]

\* HighsLpAggregator::getCurrentAggregation(inds, vals, negate): the nonzero
\* entries, ascending; negate gives the complemented form
AggregationInds(agg) == Ascending({k \in AggInds : agg[k] # Zero})

AggregationVals(agg, negate) ==
  LET inds == AggregationInds(agg)
  IN [k \in 1 .. Len(inds) |->
        IF negate THEN RNeg(agg[inds[k]]) ELSE agg[inds[k]]]

\* HighsLpAggregator::clear()
EmptyAggregation == [k \in AggInds |-> Zero]

\* HighsCutGeneration::generateCut on the given form of the aggregation
generateCut(form) == cutPlan[1] = form /\ currPathLen >= cutPlan[2]

----------------------------------------------------------------------------
(* Row classification, lines 43-65                                         *)


\* the classification with the >= kind also on equal slacks
ClassifyRowTieGeq(r) ==
  IF lp.row_lower[r] = lp.row_upper[r] THEN kEq
  ELSE
    LET lowerslack == IF lp.row_lower[r] # RNeg(kHighsInf)
                      THEN RSub(lp.row_value[r], lp.row_lower[r])
                      ELSE kHighsInf
        upperslack == IF lp.row_upper[r] # kHighsInf
                      THEN RSub(lp.row_upper[r], lp.row_value[r])
                      ELSE kHighsInf
    IN IF RGt(lowerslack, feastol) /\ RGt(upperslack, feastol) THEN kUnusuable
       ELSE IF RLe(lowerslack, upperslack) THEN kGeq
       ELSE kLeq

ClassifyRow(r) ==
  IF lp.row_lower[r] = lp.row_upper[r] THEN kEq
  ELSE
    LET lowerslack == IF lp.row_lower[r] # RNeg(kHighsInf)
                      THEN RSub(lp.row_value[r], lp.row_lower[r])
                      ELSE kHighsInf
        upperslack == IF lp.row_upper[r] # kHighsInf
                      THEN RSub(lp.row_upper[r], lp.row_value[r])
                      ELSE kHighsInf
    IN IF RGt(lowerslack, feastol) /\ RGt(upperslack, feastol) THEN kUnusuable
       ELSE IF RLt(lowerslack, upperslack) THEN kGeq
       ELSE kLeq

(* Counting continuous columns off their bound, lines 67-76                *)


\* the count of lines 67-76 without the test of the bound distance
CountContinuousAll(r) ==
  Cardinality({k \in 1 .. Len(continuous_cols) :
                 \E e \in 1 .. Len(ColEntries(continuous_cols[k])) :
                   ColEntries(continuous_cols[k])[e][1] = r})

\* the loop increments numContinuous[row] once per stored entry of every
\* continuous column whose bound distance is not 0.0
CountContinuous(r) ==
  Cardinality({k \in 1 .. Len(continuous_cols) :
                 /\ boundDistance(continuous_cols[k]) # Zero
                 /\ \E e \in 1 .. Len(ColEntries(continuous_cols[k])) :
                      ColEntries(continuous_cols[k])[e][1] = r})

(* Substitution detection, lines 85-113                                    *)


\* the position j at which the scan of lines 94-99 stops (Len + 1: no break)
RECURSIVE ScanRow(_, _)
ScanRow(row, j) ==
  IF j > Len(row) THEN j
  ELSE IF lp.type[row[j][1]] # "C" THEN ScanRow(row, j + 1)
  ELSE IF boundDistance(row[j][1]) = Zero THEN ScanRow(row, j + 1)
  ELSE j

\* the test of line 86 with >= 1 for == 1
IsSubstitutionRowAny(rt, nc, r) == rt[r] = kEq /\ nc[r] >= 1

\* whether row r enters the body of the if of line 86
IsSubstitutionRow(rt, nc, r) == rt[r] = kEq /\ nc[r] = 1

\* line 111 left out
DemoteNot(rt, r) == rt

\* line 111: the row that becomes a substitution source is no seed any more
Demote(rt, r) == [rt EXCEPT ![r] = kUnusuable]

\* line 107 left out: a later row overwrites the record
NeverSubstituted(subs, col) == FALSE

\* line 107: an earlier row already owns the column
AlreadySubstituted(subs, col) == subs[col][1] # -1

RECURSIVE DetectFrom(_, _, _, _)
DetectFrom(r, rt, nc, subs) ==
  IF r = NumRow THEN [rowtype |-> rt, colSubstitutions |-> subs]
  ELSE IF IsSubstitutionRow(rt, nc, r)
  THEN LET row == getRow(r)
           j   == ScanRow(row, 1)
           col == row[j][1]
           val == row[j][2]
       IN IF AlreadySubstituted(subs, col) THEN DetectFrom(r + 1, rt, nc, subs)
          ELSE DetectFrom(r + 1, Demote(rt, r), nc,
                          [subs EXCEPT ![col] = <<r, val>>])
  ELSE DetectFrom(r + 1, rt, nc, subs)

(* In-arc and out-arc lists, lines 126-162                                 *)


\* the sign test of the >= and == rows applied to rows of every kind
IsInArcPositive(rt, val) == RGt(val, Zero)


\* lines 141-157: whether an entry of a row of kind rt goes to inArcRows
IsInArc(rt, val) ==
  IF rt = kLeq THEN RLt(val, Zero) ELSE RGt(val, Zero)

\* the switch of line 141 without its first case
RECURSIVE AppendArcsAll(_, _, _, _, _)
AppendArcsAll(ents, e, rt, ins, outs) ==
  IF e > Len(ents) THEN <<ins, outs>>
  ELSE IF IsInArc(rt[ents[e][1]], ents[e][2])
  THEN AppendArcsAll(ents, e + 1, rt, Append(ins, ents[e]), outs)
  ELSE AppendArcsAll(ents, e + 1, rt, ins, Append(outs, ents[e]))

\* the entries of one column appended to the two tables, lines 140-158
RECURSIVE AppendArcs(_, _, _, _, _)
AppendArcs(ents, e, rt, ins, outs) ==
  IF e > Len(ents) THEN <<ins, outs>>
  ELSE IF rt[ents[e][1]] = kUnusuable THEN AppendArcs(ents, e + 1, rt, ins, outs)
  ELSE IF IsInArc(rt[ents[e][1]], ents[e][2])
  THEN AppendArcs(ents, e + 1, rt, Append(ins, ents[e]), outs)
  ELSE AppendArcs(ents, e + 1, rt, ins, Append(outs, ents[e]))

\* lines 135-136: the columns that get arc ranges
HasArcs(subs, col) == boundDistance(col) # Zero /\ subs[col][1] = -1

RECURSIVE BuildFrom(_, _, _, _)
BuildFrom(k, rt, subs, st) ==
  IF k > Len(continuous_cols) THEN st
  ELSE
    LET col == continuous_cols[k]
    IN IF ~HasArcs(subs, col) THEN BuildFrom(k + 1, rt, subs, st)
       ELSE
         LET both == AppendArcs(ColEntries(col), 1, rt, st.inArcRows, st.outArcRows)
         IN BuildFrom(k + 1, rt, subs,
              [inArcRows  |-> both[1],
               outArcRows |-> both[2],
               colInArcs  |-> [st.colInArcs EXCEPT
                                 ![col] = <<Len(st.inArcRows), Len(both[1])>>],
               colOutArcs |-> [st.colOutArcs EXCEPT
                                 ![col] = <<Len(st.outArcRows), Len(both[2])>>]])

----------------------------------------------------------------------------
(* The path loop, lines 169-309                                            *)

\* an entry of the history of one call
Event(op, row, w, how, ok) ==
  [op |-> op, row |-> row, w |-> w, how |-> how, ok |-> ok]

\* lines 170-172: the rows that start a path
IsSeed(rt) == rt # kUnusuable


\* the seed weight without the reversal of <= rows
SeedWeightPlus(rt) == R(1)

\* lines 173-178: the weight a row of kind rt is seeded with
SeedWeight(rt) == IF rt = kLeq THEN R(-1) ELSE R(1)

\* the loop test off by one
LoopContinuesLate(len) == len # maxPathLen + 1

\* line 189
LoopContinues(len) == len # maxPathLen

\* the weight test without its upper limit
checkWeightNoMax(w) == RGe(RAbs(w), feastol)

\* lines 181-187
checkWeight(w) ==
  LET maxWeight == RDiv(R(1), feastol)
      minWeight == feastol
  IN RLe(RAbs(w), maxWeight) /\ RGe(RAbs(w), minWeight)

\* lines 204-206: the entries of the aggregated row the scan passes over
Skipped(col) ==
  col >= NumCol \/ boundDistance(col) = Zero \/ isColIntegral(col)


\* lines 202-234 with >= for > in the tests of lines 220 and 228: of the
\* columns with the largest bound distance the last one is kept
RECURSIVE ScanFromLast(_, _, _, _)
ScanFromLast(inds, vals, j, st) ==
  IF j > Len(inds) THEN st
  ELSE
    LET col == inds[j]
        val == vals[j]
    IN IF Skipped(col) THEN ScanFromLast(inds, vals, j + 1, st)
       ELSE IF colSubstitutions[col][1] # -1
       THEN LET w == RDiv(RNeg(val), colSubstitutions[col][2])
            IN ScanFromLast(inds, vals, j + 1,
                 [st EXCEPT !.added = TRUE,
                            !.agg = addRow(st.agg, colSubstitutions[col][1], w),
                            !.log = Append(st.log,
                                      Event("addRow", colSubstitutions[col][1], w,
                                            "subst", TRUE))])
       ELSE IF st.added THEN ScanFromLast(inds, vals, j + 1, st)
       ELSE IF RLt(val, Zero)
       THEN IF colInArcs[col][1] = colInArcs[col][2] THEN ScanFromLast(inds, vals, j + 1, st)
            ELSE IF st.bestOutArcCol = -1
                    \/ RGe(boundDistance(col), st.outArcColBoundDist)
            THEN ScanFromLast(inds, vals, j + 1,
                   [st EXCEPT !.bestOutArcCol = col,
                              !.outArcColVal = val,
                              !.outArcColBoundDist = boundDistance(col)])
            ELSE ScanFromLast(inds, vals, j + 1, st)
       ELSE IF colOutArcs[col][1] = colOutArcs[col][2] THEN ScanFromLast(inds, vals, j + 1, st)
            ELSE IF st.bestInArcCol = -1
                    \/ RGe(boundDistance(col), st.inArcColBoundDist)
            THEN ScanFromLast(inds, vals, j + 1,
                   [st EXCEPT !.bestInArcCol = col,
                              !.inArcColVal = val,
                              !.inArcColBoundDist = boundDistance(col)])
            ELSE ScanFromLast(inds, vals, j + 1, st)

\* lines 202-234, from position j of the row read at line 190
RECURSIVE ScanFrom(_, _, _, _)
ScanFrom(inds, vals, j, st) ==
  IF j > Len(inds) THEN st
  ELSE
    LET col == inds[j]
        val == vals[j]
    IN IF Skipped(col) THEN ScanFrom(inds, vals, j + 1, st)
       ELSE IF colSubstitutions[col][1] # -1
       THEN LET w == RDiv(RNeg(val), colSubstitutions[col][2])
            IN ScanFrom(inds, vals, j + 1,
                 [st EXCEPT !.added = TRUE,
                            !.agg = addRow(st.agg, colSubstitutions[col][1], w),
                            !.log = Append(st.log,
                                      Event("addRow", colSubstitutions[col][1], w,
                                            "subst", TRUE))])
       ELSE IF st.added THEN ScanFrom(inds, vals, j + 1, st)
       ELSE IF RLt(val, Zero)
       THEN IF colInArcs[col][1] = colInArcs[col][2] THEN ScanFrom(inds, vals, j + 1, st)
            ELSE IF st.bestOutArcCol = -1
                    \/ RGt(boundDistance(col), st.outArcColBoundDist)
            THEN ScanFrom(inds, vals, j + 1,
                   [st EXCEPT !.bestOutArcCol = col,
                              !.outArcColVal = val,
                              !.outArcColBoundDist = boundDistance(col)])
            ELSE ScanFrom(inds, vals, j + 1, st)
       ELSE IF colOutArcs[col][1] = colOutArcs[col][2] THEN ScanFrom(inds, vals, j + 1, st)
            ELSE IF st.bestInArcCol = -1
                    \/ RGt(boundDistance(col), st.inArcColBoundDist)
            THEN ScanFrom(inds, vals, j + 1,
                   [st EXCEPT !.bestInArcCol = col,
                              !.inArcColVal = val,
                              !.inArcColBoundDist = boundDistance(col)])
            ELSE ScanFrom(inds, vals, j + 1, st)


\* lines 255-257 without the tolerance
PreferOutArcNoTol ==
  \/ bestInArcCol = -1
  \/ /\ bestOutArcCol # -1
     /\ RGe(outArcColBoundDist, inArcColBoundDist)

\* lines 255-257: the out-arc candidate is tried first
PreferOutArc ==
  \/ bestInArcCol = -1
  \/ /\ bestOutArcCol # -1
     /\ RGe(outArcColBoundDist, RSub(inArcColBoundDist, feastol))

\* line 248 without the test for candidates
PathEndsOnSuccess(success) == success


\* line 248 without the test for success
PathEndsNoCandidate(success) == bestOutArcCol = -1 /\ bestInArcCol = -1

\* line 248: the path ends with a cut or without a candidate
PathEnds(success) == success \/ (bestOutArcCol = -1 /\ bestInArcCol = -1)

\* lines 269-270 and 294-295: whether the row at hand replaces the best one;
\* the bit is drawn only when the first two tests fail and the third holds
DrawsBit(best, thisScore) ==
  /\ best.row # -1
  /\ ~RGt(thisScore, RAdd(best.score, feastol))
  /\ RGe(thisScore, RSub(best.score, feastol))


\* lines 261-275 and 286-300 with the weight colVal / coefficient, without
\* the minus sign
RECURSIVE FindRowPlain(_, _, _, _, _)
FindRowPlain(arcs, k, second, colVal, best) ==
  IF k >= second THEN best
  ELSE
    LET thisRow    == arcs[k + 1][1]
        thisWeight == RDiv(colVal, arcs[k + 1][2])
    IN IF ~checkWeight(thisWeight) THEN FindRowPlain(arcs, k + 1, second, colVal, best)
       ELSE
         LET thisScore == RAbs(RMul(thisWeight, lp.row_dual[thisRow]))
             draws     == DrawsBit(best, thisScore)
             bit       == RandBit(best.rand)
             after     == IF draws
                          THEN [best EXCEPT
                                  !.rand = NextRand(best.rand),
                                  !.log = Append(best.log,
                                            Event("bit", -1, Zero, "draw", bit))]
                          ELSE best
             takes     == \/ best.row = -1
                          \/ RGt(thisScore, RAdd(best.score, feastol))
                          \/ (draws /\ bit)
         IN IF takes
            THEN FindRowPlain(arcs, k + 1, second, colVal,
                   [after EXCEPT !.row = thisRow, !.score = thisScore,
                                 !.weight = thisWeight])
            ELSE FindRowPlain(arcs, k + 1, second, colVal, after)

\* lines 261-275 and 286-300: the scan of arcs[first + 1 .. second] for the
\* column whose coefficient in the aggregation is colVal
RECURSIVE FindRow(_, _, _, _, _)
FindRow(arcs, k, second, colVal, best) ==
  IF k >= second THEN best
  ELSE
    LET thisRow    == arcs[k + 1][1]
        thisWeight == RDiv(RNeg(colVal), arcs[k + 1][2])
    IN IF ~checkWeight(thisWeight) THEN FindRow(arcs, k + 1, second, colVal, best)
       ELSE
         LET thisScore == RAbs(RMul(thisWeight, lp.row_dual[thisRow]))
             draws     == DrawsBit(best, thisScore)
             bit       == RandBit(best.rand)
             after     == IF draws
                          THEN [best EXCEPT
                                  !.rand = NextRand(best.rand),
                                  !.log = Append(best.log,
                                            Event("bit", -1, Zero, "draw", bit))]
                          ELSE best
             takes     == \/ best.row = -1
                          \/ RGt(thisScore, RAdd(best.score, feastol))
                          \/ (draws /\ bit)
         IN IF takes
            THEN FindRow(arcs, k + 1, second, colVal,
                   [after EXCEPT !.row = thisRow, !.score = thisScore,
                                 !.weight = thisWeight])
            ELSE FindRow(arcs, k + 1, second, colVal, after)

\* lines 258-260 and 283-285
NoRow(rand, log) ==
  [row |-> -1, weight |-> Zero, score |-> Zero, rand |-> rand, log |-> log]

\* the state of the scan at line 202
ScanStart ==
  [agg |-> lpAggregator, added |-> FALSE, log |-> <<>>,
   bestOutArcCol |-> -1, outArcColVal |-> Zero, outArcColBoundDist |-> Zero,
   bestInArcCol |-> -1, inArcColVal |-> Zero, inArcColBoundDist |-> Zero]

\* lines 281-300, entered by the else of line 280 or by the goto of line 277.
\* With bestInArcCol = -1 line 286 reads colOutArcs[-1], outside the vector
\* (ub); sc is the sequence of columns whose arc range was read before
InArcScan(rand, log, sc) ==
  IF bestInArcCol = -1
  THEN [res |-> NoRow(rand, log), scanned |-> Append(sc, -1), ub |-> TRUE]
  ELSE [res |-> FindRow(outArcRows, colOutArcs[bestInArcCol][1],
                        colOutArcs[bestInArcCol][2], inArcColVal,
                        NoRow(rand, log)),
        scanned |-> Append(sc, bestInArcCol), ub |-> FALSE]

\* line 277 as a break
NoFallback(o) == [res |-> o, scanned |-> <<bestOutArcCol>>, ub |-> FALSE]

\* line 277: no row of the out-arc candidate's in-arc range qualified
Fallback(o) == InArcScan(o.rand, o.log, <<bestOutArcCol>>)

\* lines 255-305: the row to fold in, the generator afterwards, the bits drawn
ExtensionScan ==
  IF PreferOutArc
  THEN LET o == FindRow(inArcRows, colInArcs[bestOutArcCol][1],
                        colInArcs[bestOutArcCol][2], outArcColVal,
                        NoRow(randgen, <<>>))
       IN IF o.row # -1
          THEN [res |-> o, scanned |-> <<bestOutArcCol>>, ub |-> FALSE]
          ELSE Fallback(o)
  ELSE InArcScan(randgen, <<>>, <<>>)

----------------------------------------------------------------------------
(* Initial state: the separator and an empty aggregator, before a call     *)

NoLocals ==
  /\ rowtype = [r \in Rows |-> kEq]
  /\ numContinuous = [r \in Rows |-> 0]
  /\ colSubstitutions = [c \in Cols |-> <<-1, Zero>>]
  /\ inArcRows = <<>>
  /\ colInArcs = [c \in Cols |-> <<0, 0>>]
  /\ outArcRows = <<>>
  /\ colOutArcs = [c \in Cols |-> <<0, 0>>]
  /\ i = 0
  /\ currPathLen = 0
  /\ baseRowInds = <<>>
  /\ baseRowVals = <<>>
  /\ bestOutArcCol = -1
  /\ outArcColVal = Zero
  /\ outArcColBoundDist = Zero
  /\ bestInArcCol = -1
  /\ inArcColVal = Zero
  /\ inArcColBoundDist = Zero
  /\ trace = <<>>
  /\ path = <<>>
  /\ rowtype0 = [r \in Rows |-> kEq]
  /\ scanned = <<>>

\* the locals of a call as they are constructed
ResetLocals ==
  /\ rowtype' = [r \in Rows |-> kEq]
  /\ numContinuous' = [r \in Rows |-> 0]
  /\ colSubstitutions' = [c \in Cols |-> <<-1, Zero>>]
  /\ inArcRows' = <<>>
  /\ colInArcs' = [c \in Cols |-> <<0, 0>>]
  /\ outArcRows' = <<>>
  /\ colOutArcs' = [c \in Cols |-> <<0, 0>>]
  /\ i' = 0
  /\ currPathLen' = 0
  /\ baseRowInds' = <<>>
  /\ baseRowVals' = <<>>
  /\ bestOutArcCol' = -1
  /\ outArcColVal' = Zero
  /\ outArcColBoundDist' = Zero
  /\ bestInArcCol' = -1
  /\ inArcColVal' = Zero
  /\ inArcColBoundDist' = Zero
  /\ trace' = <<>>
  /\ path' = <<>>
  /\ rowtype0' = [r \in Rows |-> kEq]
  /\ scanned' = <<>>

Init ==
  /\ lp \in Relaxations
  /\ random_seed \in 0 .. MaxSeed
  /\ numLpIterations = 0
  /\ cutPlan \in CutPlans
  /\ randgen = 0
  /\ lpAggregator = EmptyAggregation
  /\ cutpool = 0
  /\ pc = "start"
  /\ call = 0
  /\ firstRun = [iters |-> -1, trace |-> <<>>]
  /\ NoLocals

----------------------------------------------------------------------------
(* Actions                                                                 *)

\* lines 39-40
Initialise ==
  /\ pc = "start"
  /\ randgen' = initialise(random_seed + numLpIterations)
  /\ call' = call + 1
  /\ pc' = "classify"
  /\ UNCHANGED <<inputs, numLpIterations, lpAggregator, cutpool, locals, i,
                 currPathLen, round, trace, path, rowtype0, scanned, firstRun>>

\* lines 41-65
Classify ==
  /\ pc = "classify"
  /\ rowtype' = [r \in Rows |-> ClassifyRow(r)]
  /\ rowtype0' = rowtype'
  /\ pc' = "count"
  /\ UNCHANGED <<inputs, numLpIterations, randgen, lpAggregator, cutpool,
                 numContinuous, colSubstitutions, inArcRows, colInArcs,
                 outArcRows, colOutArcs, i, currPathLen, round, call, trace,
                 path, scanned, firstRun>>

\* lines 67-76
Count ==
  /\ pc = "count"
  /\ numContinuous' = [r \in Rows |-> CountContinuous(r)]
  /\ pc' = "detect"
  /\ UNCHANGED <<inputs, numLpIterations, randgen, lpAggregator, cutpool,
                 rowtype, colSubstitutions, inArcRows, colInArcs, outArcRows,
                 colOutArcs, i, currPathLen, round, call, trace, path,
                 rowtype0, scanned, firstRun>>

\* lines 78-113
Detect ==
  /\ pc = "detect"
  /\ LET d == DetectFrom(0, rowtype, numContinuous, colSubstitutions)
     IN /\ rowtype' = d.rowtype
        /\ colSubstitutions' = d.colSubstitutions
  /\ pc' = "arcs"
  /\ UNCHANGED <<inputs, numLpIterations, randgen, lpAggregator, cutpool,
                 numContinuous, inArcRows, colInArcs, outArcRows, colOutArcs,
                 i, currPathLen, round, call, trace, path, rowtype0, scanned,
                 firstRun>>

\* lines 126-162
BuildArcs ==
  /\ pc = "arcs"
  /\ LET b == BuildFrom(1, rowtype, colSubstitutions,
                 [inArcRows |-> <<>>, outArcRows |-> <<>>,
                  colInArcs |-> colInArcs, colOutArcs |-> colOutArcs])
     IN /\ inArcRows' = b.inArcRows
        /\ outArcRows' = b.outArcRows
        /\ colInArcs' = b.colInArcs
        /\ colOutArcs' = b.colOutArcs
  /\ i' = 0
  /\ pc' = "seed"
  /\ UNCHANGED <<inputs, numLpIterations, randgen, lpAggregator, cutpool,
                 rowtype, numContinuous, colSubstitutions, currPathLen, round,
                 call, trace, path, rowtype0, scanned, firstRun>>

\* lines 169-172: an unusable row is no seed
SkipRow ==
  /\ pc = "seed"
  /\ i # NumRow
  /\ ~IsSeed(rowtype[i])
  /\ i' = i + 1
  /\ UNCHANGED <<inputs, numLpIterations, randgen, lpAggregator, cutpool, pc,
                 locals, currPathLen, round, call, trace, path, rowtype0,
                 scanned, firstRun>>

\* lines 169-180: the row is folded in as the seed of a path
SeedRow ==
  /\ pc = "seed"
  /\ i # NumRow
  /\ IsSeed(rowtype[i])
  /\ LET w == SeedWeight(rowtype[i])
     IN /\ lpAggregator' = addRow(lpAggregator, i, w)
        /\ trace' = Append(trace, Event("addRow", i, w, "seed", TRUE))
        /\ path' = <<Event("addRow", i, w, "seed", TRUE)>>
  /\ currPathLen' = 1
  /\ pc' = "loop"
  /\ UNCHANGED <<inputs, numLpIterations, randgen, cutpool, locals, i, round,
                 call, rowtype0, scanned, firstRun>>


\* line 189 leaving for the next seed row past the clear of line 308
ExitLoopNoClear ==
  /\ pc = "loop"
  /\ ~LoopContinues(currPathLen)
  /\ pc' = "seed"
  /\ i' = i + 1
  /\ path' = <<>>
  /\ scanned' = <<>>
  /\ UNCHANGED <<inputs, numLpIterations, randgen, lpAggregator, cutpool,
                 locals, currPathLen, round, call, trace, rowtype0, firstRun>>

\* line 189: the path has maxPathLen rows
ExitLoop ==
  /\ pc = "loop"
  /\ ~LoopContinues(currPathLen)
  /\ pc' = "clear"
  /\ scanned' = <<>>
  /\ UNCHANGED <<inputs, numLpIterations, randgen, lpAggregator, cutpool,
                 locals, i, currPathLen, round, call, trace, path, rowtype0,
                 firstRun>>


\* lines 189-236 without the continue of line 236
ScanThenCut ==
  /\ pc = "loop"
  /\ LoopContinues(currPathLen)
  /\ LET inds == AggregationInds(lpAggregator)
         vals == AggregationVals(lpAggregator, FALSE)
         st   == ScanFrom(inds, vals, 1, ScanStart)
     IN /\ baseRowInds' = inds
        /\ baseRowVals' = vals
        /\ lpAggregator' = st.agg
        /\ bestOutArcCol' = st.bestOutArcCol
        /\ outArcColVal' = st.outArcColVal
        /\ outArcColBoundDist' = st.outArcColBoundDist
        /\ bestInArcCol' = st.bestInArcCol
        /\ inArcColVal' = st.inArcColVal
        /\ inArcColBoundDist' = st.inArcColBoundDist
        /\ trace' = Append(trace, Event("read", -1, Zero, "raw", TRUE)) \o st.log
        /\ path' = path \o st.log
        /\ pc' = "cut"
  /\ scanned' = <<>>
  /\ UNCHANGED <<inputs, numLpIterations, randgen, cutpool, locals, i,
                 currPathLen, call, rowtype0, firstRun>>

\* the aggregation holds, on a column with a recorded substitution, the value
\* without order: every round of the loop of line 189 from here on folds in
\* that column's substitution row, which leaves the value as it is, and line
\* 236 continues
Stalled ==
  /\ pc = "loop"
  /\ LoopContinues(currPathLen)
  /\ \E c \in Cols :
       /\ ~Skipped(c)
       /\ colSubstitutions[c][1] # -1
       /\ IsNaN(lpAggregator[c])

\* the rows of the path that were folded in with the weight NaN
Repeated ==
  Cardinality({k \in 1 .. Len(path) : path[k].how = "subst" /\ IsNaN(path[k].w)})

\* lines 189-236: read the aggregation, substitute, pick the candidates
Scan ==
  /\ pc = "loop"
  /\ LoopContinues(currPathLen)
  /\ Repeated < MaxRepeat
  /\ LET inds == AggregationInds(lpAggregator)
         vals == AggregationVals(lpAggregator, FALSE)
         st   == ScanFrom(inds, vals, 1, ScanStart)
     IN /\ baseRowInds' = inds
        /\ baseRowVals' = vals
        /\ lpAggregator' = st.agg
        /\ bestOutArcCol' = st.bestOutArcCol
        /\ outArcColVal' = st.outArcColVal
        /\ outArcColBoundDist' = st.outArcColBoundDist
        /\ bestInArcCol' = st.bestInArcCol
        /\ inArcColVal' = st.inArcColVal
        /\ inArcColBoundDist' = st.inArcColBoundDist
        /\ trace' = Append(trace, Event("read", -1, Zero, "raw", TRUE)) \o st.log
        /\ path' = path \o st.log
        /\ pc' = IF st.added THEN "loop" ELSE "cut"
  /\ scanned' = <<>>
  /\ UNCHANGED <<inputs, numLpIterations, randgen, cutpool, locals, i,
                 currPathLen, call, rowtype0, firstRun>>


\* lines 238-248 with the second attempt made whatever the first one gave
GenerateCutsBoth ==
  /\ pc = "cut"
  /\ LET first   == generateCut("raw")
         second  == generateCut("compl")
         success == first \/ second
     IN /\ baseRowVals' = AggregationVals(lpAggregator, TRUE)
        /\ trace' = trace \o
                    <<Event("generateCut", -1, Zero, "raw", first),
                      Event("read", -1, Zero, "compl", TRUE),
                      Event("generateCut", -1, Zero, "compl", second)>>
        /\ cutpool' = IF success THEN cutpool + 1 ELSE cutpool
        /\ pc' = IF PathEnds(success) THEN "clear" ELSE "extend"
  /\ UNCHANGED <<inputs, numLpIterations, randgen, lpAggregator, locals, i,
                 currPathLen, baseRowInds, bestOutArcCol, outArcColVal,
                 outArcColBoundDist, bestInArcCol, inArcColVal,
                 inArcColBoundDist, call, path, rowtype0, scanned, firstRun>>

\* lines 238-248: the two cut generation attempts, the second one only when
\* the first one failed
GenerateCuts ==
  /\ pc = "cut"
  /\ LET first   == generateCut("raw")
         second  == generateCut("compl")
         success == first \/ second
     IN /\ baseRowVals' = AggregationVals(lpAggregator, TRUE)
        /\ trace' = trace \o
                    <<Event("generateCut", -1, Zero, "raw", first),
                      Event("read", -1, Zero, "compl", TRUE)>> \o
                    (IF first THEN <<>>
                     ELSE <<Event("generateCut", -1, Zero, "compl", second)>>)
        /\ cutpool' = IF success THEN cutpool + 1 ELSE cutpool
        /\ pc' = IF PathEnds(success) THEN "clear" ELSE "extend"
  /\ UNCHANGED <<inputs, numLpIterations, randgen, lpAggregator, locals, i,
                 currPathLen, baseRowInds, bestOutArcCol, outArcColVal,
                 outArcColBoundDist, bestInArcCol, inArcColVal,
                 inArcColBoundDist, call, path, rowtype0, scanned, firstRun>>

\* lines 250-305: one more row, or the end of the path.  The read outside
\* colOutArcs either finds an empty range (the path ends) or ends the process.
Extend ==
  /\ pc = "extend"
  /\ currPathLen' = currPathLen + 1
  /\ LET sc == ExtensionScan
         ev == Event("addRow", sc.res.row, sc.res.weight, "ext", TRUE)
     IN /\ scanned' = sc.scanned
        /\ randgen' = sc.res.rand
        /\ IF sc.ub
           THEN /\ pc' \in {"clear", "crashed"}
                /\ trace' = trace \o sc.res.log
                /\ UNCHANGED <<lpAggregator, path>>
           ELSE IF sc.res.row = -1
           THEN /\ pc' = "clear"
                /\ trace' = trace \o sc.res.log
                /\ UNCHANGED <<lpAggregator, path>>
           ELSE /\ pc' = "loop"
                /\ lpAggregator' = addRow(lpAggregator, sc.res.row, sc.res.weight)
                /\ trace' = Append(trace \o sc.res.log, ev)
                /\ path' = Append(path, ev)
  /\ UNCHANGED <<inputs, numLpIterations, cutpool, locals, i, round, call,
                 rowtype0, firstRun>>


\* line 308 as a reset that also empties the separator's arc tables
ClearAll ==
  /\ pc = "clear"
  /\ lpAggregator' = EmptyAggregation
  /\ trace' = Append(trace, Event("clear", -1, Zero, "clear", TRUE))
  /\ path' = <<>>
  /\ scanned' = <<>>
  /\ i' = i + 1
  /\ pc' = "seed"
  /\ inArcRows' = <<>>
  /\ outArcRows' = <<>>
  /\ UNCHANGED <<inputs, numLpIterations, randgen, cutpool, rowtype,
                 numContinuous, colSubstitutions, colInArcs, colOutArcs,
                 currPathLen, round, call, rowtype0, firstRun>>

\* line 308
Clear ==
  /\ pc = "clear"
  /\ lpAggregator' = EmptyAggregation
  /\ trace' = Append(trace, Event("clear", -1, Zero, "clear", TRUE))
  /\ path' = <<>>
  /\ scanned' = <<>>
  /\ i' = i + 1
  /\ pc' = "seed"
  /\ UNCHANGED <<inputs, numLpIterations, randgen, cutpool, locals,
                 currPathLen, round, call, rowtype0, firstRun>>

\* line 310: every row has been tried
Return ==
  /\ pc = "seed"
  /\ i = NumRow
  /\ pc' = "done"
  /\ firstRun' = IF call = 1
                 THEN [iters |-> numLpIterations, trace |-> trace]
                 ELSE firstRun
  /\ UNCHANGED <<inputs, numLpIterations, randgen, lpAggregator, cutpool,
                 locals, i, currPathLen, round, call, trace, path, rowtype0,
                 scanned>>

Next ==
  \/ Initialise
  \/ Classify
  \/ Count
  \/ Detect
  \/ BuildArcs
  \/ SkipRow
  \/ SeedRow
  \/ ExitLoop
  \/ Scan
  \/ GenerateCuts
  \/ Extend
  \/ Clear
  \/ Return

Spec == Init /\ [][Next]_vars

\* the positions of separateLpSolution
Positions ==
  {"start", "classify", "count", "detect", "arcs", "seed", "loop", "cut",
   "extend", "clear", "done", "crashed"}

\* the thread that runs the call moves on to another position unless the call
\* has returned, the process has been terminated or the loop of line 189
\* repeats one round
Advance == pc \notin {"done", "crashed"} /\ ~Stalled /\ pc' \in Positions

\* no step of the call waits for anything: a running call keeps advancing
SpecFair == Spec /\ WF_pc(Advance)

----------------------------------------------------------------------------
(* Repeated invocations on the same relaxation: the separator object and   *)
(* its generator live on, the iteration count has moved                    *)

ReproRelaxations ==
  {Relaxation(ts, p) : ts \in PaddedRows({"geq", "eq2", "wide", "tie"}),
                       p \in {"cont", "mixed"}}

InitRepro ==
  /\ lp \in ReproRelaxations
  /\ random_seed = 0
  /\ numLpIterations \in 0 .. MaxIters
  /\ cutPlan \in {<<"none", 0>>, <<"raw", 2>>}
  /\ randgen = 0
  /\ lpAggregator = EmptyAggregation
  /\ cutpool = 0
  /\ pc = "start"
  /\ call = 0
  /\ firstRun = [iters |-> -1, trace |-> <<>>]
  /\ NoLocals

\* the next call of separateLpSolution: its locals are constructed anew
Reinvoke ==
  /\ pc = "done"
  /\ call < MaxCalls
  /\ numLpIterations' \in 0 .. MaxIters
  /\ pc' = "start"
  /\ ResetLocals
  /\ UNCHANGED <<inputs, randgen, lpAggregator, cutpool, call, firstRun>>

NextRepro == Next \/ Reinvoke

SpecRepro == InitRepro /\ [][NextRepro]_vars

----------------------------------------------------------------------------
(* Vocabulary of the properties                                            *)

\* the rows of a history that were folded in as seed or as path extension
FoldedRows(h) ==
  SelectSeq(h, LAMBDA e : e.op = "addRow" /\ e.how \in {"seed", "ext"})

\* the last entry of a non-empty history
Last(h) == h[Len(h)]

\* the call has classified its rows / searched for substitutions / built arcs
Classified == pc \notin {"start", "classify"}

Detected == pc \notin {"start", "classify", "count", "detect"}

ArcsBuilt == pc \notin {"start", "classify", "count", "detect", "arcs"}

\* the continuous columns off their bound that row r holds
EligibleCols(r) ==
  {c \in Cols : lp.a[r][c].nz /\ lp.type[c] = "C" /\ lp.dist[c] # Zero}

\* the rows column c is stored in
Incidence(c) == {r \in Rows : lp.a[r][c].nz}

\* how often row r occurs in positions rng[1] + 1 .. rng[2] of an arc table
Occurrences(arcs, rng, r) ==
  Cardinality({k \in rng[1] + 1 .. rng[2] : arcs[k][1] = r})

\* two index ranges [first, second) share no position
Disjoint(x, y) == x[1] >= x[2] \/ y[1] >= y[2] \/ x[2] <= y[1] \/ y[2] <= x[1]

\* the band of safe weights, written out
InBand(w) ==
  /\ w[2] # 0
  /\ feastol[1] * w[2] <= Abs(w[1]) * feastol[2]
  /\ Abs(w[1]) * feastol[1] <= feastol[2] * w[2]

\* some entry of positions rng of an arc table gives, for the coefficient
\* colVal, a weight in the band / outside the band
Qualifies(arcs, rng, colVal) ==
  \E k \in rng[1] + 1 .. rng[2] : InBand(RDiv(RNeg(colVal), arcs[k][2]))

Rejects(arcs, rng, colVal) ==
  \E k \in rng[1] + 1 .. rng[2] : ~InBand(RDiv(RNeg(colVal), arcs[k][2]))

\* a step of lines 250-305 has just been taken
Extended == scanned # <<>>

\* the list that step scanned first was the out-arc candidate's in-arc range
OutFirst == Extended /\ PreferOutArc

\* the list scanned first holds a qualifying row
FirstQualifies ==
  IF PreferOutArc
  THEN Qualifies(inArcRows, colInArcs[bestOutArcCol], outArcColVal)
  ELSE Qualifies(outArcRows, colOutArcs[bestInArcCol], inArcColVal)

\* the in-arc candidate's out-arc range holds a qualifying row
InCandidateQualifies ==
  /\ bestInArcCol # -1
  /\ Qualifies(outArcRows, colOutArcs[bestInArcCol], inArcColVal)

\* that step folded a row in
FoldedNow ==
  /\ path # <<>>
  /\ Last(path).how = "ext"
  /\ Len(FoldedRows(path)) = currPathLen

\* no continuous column is off its bound
NoEligibleColumn == \A c \in Cols : lp.type[c] = "C" => lp.dist[c] = Zero

----------------------------------------------------------------------------
(* Properties                                                              *)

\* C1: for every seed row, at most 6 rows are folded into the aggregator as
\* seed or as path extension; rows folded in as substitutions do not count.
C1_PathLengthBound == Len(FoldedRows(path)) <= 6

\* a path of six rows, ended by the loop test
C1_Witness ==
  /\ pc = "clear"
  /\ Len(FoldedRows(path)) = 6
  /\ currPathLen = 6

\* C2: the call returns: from every state of a call the end of
\* separateLpSolution is reached.
C2_CallReturns == <>(pc = "done")

\* C3: every weight a path-extension row is folded in with lies in
\* [feastol, 1 / feastol]; an infinite weight (zero arc coefficient) is not
\* accepted.
C3_WeightSafety ==
  \A k \in 1 .. Len(path) : path[k].how = "ext" => InBand(path[k].w)

\* after the fallback a row is folded in from a range in which another entry,
\* one with a zero coefficient, was rejected
C3_Witness ==
  /\ pc = "loop"
  /\ Len(scanned) = 2
  /\ FoldedNow
  /\ Last(scanned) = bestInArcCol
  /\ bestInArcCol # -1
  /\ \E k \in colOutArcs[bestInArcCol][1] + 1 .. colOutArcs[bestInArcCol][2] :
       outArcRows[k][2] = Zero
  /\ Rejects(outArcRows, colOutArcs[bestInArcCol], inArcColVal)

\* C4: once the arc lists are built, every usable row of the incidence list
\* of a continuous column off its bound and without substitution occurs
\* exactly once in the column's in-arc and out-arc ranges together; unusable
\* rows occur in no arc list; the ranges of different columns do not overlap.
C4_ArcPartition ==
  ArcsBuilt =>
    /\ \A c \in Cols :
         (lp.type[c] = "C" /\ lp.dist[c] # Zero /\ colSubstitutions[c][1] = -1) =>
           \A r \in Incidence(c) :
             rowtype[r] # kUnusuable =>
               Occurrences(inArcRows, colInArcs[c], r)
                 + Occurrences(outArcRows, colOutArcs[c], r) = 1
    /\ \A k \in 1 .. Len(inArcRows) : rowtype[inArcRows[k][1]] # kUnusuable
    /\ \A k \in 1 .. Len(outArcRows) : rowtype[outArcRows[k][1]] # kUnusuable
    /\ \A c \in Cols :
         /\ colInArcs[c][1] <= colInArcs[c][2]
         /\ colInArcs[c][2] <= Len(inArcRows)
         /\ colOutArcs[c][1] <= colOutArcs[c][2]
         /\ colOutArcs[c][2] <= Len(outArcRows)
    /\ \A c1, c2 \in Cols :
         c1 # c2 => /\ Disjoint(colInArcs[c1], colInArcs[c2])
                    /\ Disjoint(colOutArcs[c1], colOutArcs[c2])

\* two columns with arcs, one of them with in-arcs, out-arcs and an unusable
\* row in its incidence list
C4_Witness ==
  /\ ArcsBuilt
  /\ \E c1, c2 \in Cols :
       /\ c1 # c2
       /\ colInArcs[c1][1] < colInArcs[c1][2]
       /\ colOutArcs[c1][1] < colOutArcs[c1][2]
       /\ colInArcs[c2][1] < colInArcs[c2][2]
       /\ \E r \in Incidence(c1) : rowtype[r] = kUnusuable

\* C5: every row has one of the four kinds; its kind differs from the
\* classification of lines 43-65 only if it was an equality row that is now the
\* recorded substitution source of a column, and then it is unusable; an
\* equality row with no or with several eligible continuous columns stays an
\* equality row.
C5_ClassificationStable ==
  \A r \in Rows :
    /\ rowtype[r] \in {kUnusuable, kGeq, kEq, kLeq}
    /\ rowtype[r] # rowtype0[r] =>
         /\ rowtype0[r] = kEq
         /\ rowtype[r] = kUnusuable
         /\ \E c \in Cols : colSubstitutions[c][1] = r
    /\ (Classified /\ rowtype0[r] = kEq /\ Cardinality(EligibleCols(r)) # 1) =>
         rowtype[r] = kEq

\* one equality row was demoted, another one with two eligible columns and
\* one with none were not
C5_Witness ==
  /\ pc = "done"
  /\ \E r1, r2 \in Rows :
       /\ rowtype0[r1] = kEq /\ rowtype[r1] = kUnusuable
       /\ rowtype0[r2] = kEq /\ rowtype[r2] = kEq
       /\ Cardinality(EligibleCols(r2)) = 2

\* C6: the recorded substitution of a column is the first row, in index order,
\* that was classified as equality and has that column as its only eligible
\* continuous column, with the column's coefficient in that row as pivot.
C6_FirstRowWins ==
  Detected =>
    \A c \in Cols :
      colSubstitutions[c][1] # -1 =>
        LET q == {r \in Rows : rowtype0[r] = kEq /\ EligibleCols(r) = {c}}
            r0 == colSubstitutions[c][1]
        IN /\ r0 \in q
           /\ \A r \in q : r0 <= r
           /\ colSubstitutions[c][2] = R(lp.a[r0][c].v)

\* two equality rows qualify for the same column
C6_Witness ==
  /\ Detected
  /\ \E c \in Cols :
       /\ colSubstitutions[c][1] # -1
       /\ Cardinality({r \in Rows : rowtype0[r] = kEq /\ EligibleCols(r) = {c}}) >= 2

\* C7: no row whose kind is unusable is folded in as a seed or as a path
\* extension; a recorded substitution source is unusable from the moment it is
\* recorded, is in no arc list and is folded in as a substitution only.
C7_UnusableNeverFolded ==
  /\ \A k \in 1 .. Len(trace) :
       (trace[k].op = "addRow" /\ trace[k].how \in {"seed", "ext"}) =>
         rowtype[trace[k].row] # kUnusuable
  /\ \A c \in Cols :
       colSubstitutions[c][1] # -1 =>
         /\ rowtype[colSubstitutions[c][1]] = kUnusuable
         /\ \A k \in 1 .. Len(inArcRows) : inArcRows[k][1] # colSubstitutions[c][1]
         /\ \A k \in 1 .. Len(outArcRows) : outArcRows[k][1] # colSubstitutions[c][1]
         /\ \A k \in 1 .. Len(trace) :
              (trace[k].op = "addRow" /\ trace[k].row = colSubstitutions[c][1]) =>
                trace[k].how = "subst"

\* a finished call that folded a substitution source in as a substitution
\* and extended a path
C7_Witness ==
  /\ pc = "done"
  /\ \E r \in Rows : rowtype[r] = kUnusuable
  /\ \E k \in 1 .. Len(trace) : trace[k].how = "subst"
  /\ \E k \in 1 .. Len(trace) : trace[k].how = "ext"

\* C8: a call with the same relaxation, tolerance, seed and iteration count as
\* the first call, and an empty aggregator on entry, performs the same sequence
\* of bit draws, addRow calls and cut generator calls, whatever calls ran
\* in between.
C8_Reproducible ==
  (call > 1 /\ pc \in {"done", "crashed"} /\ numLpIterations = firstRun.iters) =>
    trace = firstRun.trace

\* C9: when no continuous column is off its bound, no substitution and no
\* path extension happens: every addRow is a seeding one, every round is the
\* first round of its seed row and ends the path.
C9_NoEligibleNoExtension ==
  NoEligibleColumn =>
    /\ pc \notin {"extend", "crashed"}
    /\ currPathLen <= 1
    /\ Len(path) <= 1
    /\ pc = "cut" => bestOutArcCol = -1 /\ bestInArcCol = -1
    /\ \A k \in 1 .. Len(trace) :
         /\ trace[k].op = "addRow" => trace[k].how = "seed"
         /\ trace[k].op # "bit"
         /\ (trace[k].op = "read" /\ trace[k].how = "raw") =>
              (k > 1 /\ trace[k - 1].op = "addRow")

\* such a call, finished, with two seed rows and their cut generation attempts
C9_Witness ==
  /\ NoEligibleColumn
  /\ pc = "done"
  /\ Len(FoldedRows(trace)) >= 2
  /\ \E k \in 1 .. Len(trace) : trace[k].op = "generateCut" /\ trace[k].how = "compl"

\* C10 as stated: when no row of the list scanned first qualifies, the path
\* stops, no row is folded in and no second list is scanned (taken where an
\* in-arc candidate exists whenever the out-arc candidate was scanned first).
C10_DeadEndStops ==
  (Extended /\ ~FirstQualifies /\ bestInArcCol # -1) =>
    (pc = "clear" /\ Len(scanned) = 1 /\ ~FoldedNow)

\* C10, amended: a step scans the in-arc candidate's out-arc range second
\* exactly when the out-arc candidate's in-arc range was scanned first and held
\* no qualifying row; the path stops, with no row folded in, exactly when the
\* last range scanned holds no qualifying row; no third range is scanned.
C10_DeadEnd ==
  Extended =>
    /\ Len(scanned) <= 2
    /\ scanned[1] = (IF PreferOutArc THEN bestOutArcCol ELSE bestInArcCol)
    /\ Len(scanned) = 2 <=> (PreferOutArc /\ ~FirstQualifies)
    /\ Len(scanned) = 2 => scanned[2] = bestInArcCol
    /\ IF (PreferOutArc /\ FirstQualifies) \/ InCandidateQualifies
       THEN pc = "loop" /\ FoldedNow
       ELSE pc \in {"clear", "crashed"} /\ ~FoldedNow

\* both ranges were scanned and neither held a qualifying row
C10_Witness ==
  /\ Extended
  /\ Len(scanned) = 2
  /\ scanned[2] # -1
  /\ pc = "clear"

\* the seed events of a history, in the order they happened
Seeds(h) == SelectSeq(h, LAMBDA e : e.op = "addRow" /\ e.how = "seed")

\* the rows the seed loop has taken up so far: those below i, and i itself
\* while its path is being built
TakenUp ==
  {r \in Rows : r < i \/ (r = i /\ pc \in {"loop", "cut", "extend", "clear", "crashed"})}

\* C11: every row whose final kind is not Unusable is used as a seed exactly
\* once, in increasing order of the row index, with weight -1 when its kind
\* is LessOrEqual and +1 when it is GreaterOrEqual or Equality; Unusable rows
\* are never seeds.  At every moment of the loop the seeds so far are the
\* usable rows the loop has taken up, and at the return they are all of them.
C11_SeedsInOrder ==
  ArcsBuilt =>
    LET s      == Seeds(trace)
        usable == {r \in TakenUp : rowtype[r] # kUnusuable}
    IN /\ Len(s) = Cardinality(usable)
       /\ \A k \in 1 .. Len(s) : s[k].row \in usable
       /\ \A k \in 1 .. Len(s) - 1 : s[k].row < s[k + 1].row
       /\ \A k \in 1 .. Len(s) :
            s[k].w = IF rowtype[s[k].row] = kLeq THEN <<-1, 1>> ELSE <<1, 1>>
       /\ pc = "done" => {s[k].row : k \in 1 .. Len(s)}
                           = {r \in Rows : rowtype[r] # kUnusuable}

\* a call has returned after seeding a <= row and a later == row and after
\* passing over an unusable row
C11_Witness ==
  /\ pc = "done"
  /\ \E k \in 1 .. Len(Seeds(trace)) : \E m \in k + 1 .. Len(Seeds(trace)) :
       /\ rowtype[Seeds(trace)[k].row] = kLeq
       /\ Seeds(trace)[k].w = <<-1, 1>>
       /\ rowtype[Seeds(trace)[m].row] \in {kEq, kGeq}
       /\ Seeds(trace)[m].w = <<1, 1>>
  /\ \E r \in Rows : rowtype[r] = kUnusuable

\* the positions of the seed loop, lines 169-309
InSeedLoop == pc \in {"seed", "loop", "cut", "extend", "clear"}

\* C12: from the first seeding until the return no step changes the row
\* kinds, the continuous counts, the substitution map, the in-arc and
\* out-arc tables, the per-column ranges or the relaxation; the loop changes
\* only the aggregator, the random generator, the path-local variables and
\* the cut pool.
C12_LoopFrame ==
  [][InSeedLoop =>
       /\ rowtype' = rowtype
       /\ numContinuous' = numContinuous
       /\ colSubstitutions' = colSubstitutions
       /\ inArcRows' = inArcRows
       /\ outArcRows' = outArcRows
       /\ colInArcs' = colInArcs
       /\ colOutArcs' = colOutArcs
       /\ lp' = lp]_vars

\* a path that was extended, drew on a substitution and produced a cut has
\* been cleared, and the call goes on with tables that are not empty
C12_Witness ==
  /\ pc = "seed"
  /\ i > 0
  /\ cutpool > 0
  /\ \E k \in 1 .. Len(trace) : trace[k].how = "ext"
  /\ \E c \in Cols : colSubstitutions[c][1] # -1
  /\ inArcRows # <<>>
  /\ outArcRows # <<>>

\* row r times weight w as the aggregator holds it: the row's stored entries
\* and w on the row's slack index
ScaledRow(r, w) ==
  [k \in AggInds |->
     IF k < NumCol
     THEN IF lp.a[r][k].nz THEN <<w * lp.a[r][k].v, 1>> ELSE <<0, 1>>
     ELSE IF k = NumCol + r THEN <<w, 1>> ELSE <<0, 1>>]

\* C13: the aggregator, empty when the call is entered, is cleared after
\* every seed row on every way out of the path loop (cut found, dead end,
\* maximum length): it is empty whenever the next row is taken up and at the
\* return, and at the first read of a seed's path it holds exactly the seed
\* row times the seed weight.
C13_AggregatorCleared ==
  /\ pc \in {"start", "classify", "count", "detect", "arcs", "seed", "done"}
       => lpAggregator = EmptyAggregation
  /\ (pc = "loop" /\ Len(path) = 1)
       => lpAggregator = ScaledRow(i, IF rowtype[i] = kLeq THEN -1 ELSE 1)

\* the second path of a call is at its first read, after a first path that
\* was extended and then cleared
C13_Witness ==
  /\ pc = "loop"
  /\ Len(path) = 1
  /\ rowtype[i] = kLeq
  /\ \E k \in 1 .. Len(trace) : \E m \in k + 1 .. Len(trace) :
       trace[k].how = "ext" /\ trace[m].op = "clear"

\* the slack of row r towards its lower and its upper bound, infinite when
\* the bound is
LowerSlack(r) ==
  IF lp.row_lower[r] = <<-1, 0>> THEN <<1, 0>>
  ELSE RSub(lp.row_value[r], lp.row_lower[r])

UpperSlack(r) ==
  IF lp.row_upper[r] = <<1, 0>> THEN <<1, 0>>
  ELSE RSub(lp.row_upper[r], lp.row_value[r])

\* C14: the kind a row is first given is Equality if its bounds are equal;
\* otherwise Unusable if both slacks exceed the tolerance, GreaterOrEqual if
\* the lower slack is the smaller one and LessOrEqual otherwise.  So equal
\* slacks that do not both exceed the tolerance give LessOrEqual, and a free
\* row is Unusable.
C14_Classification ==
  Classified =>
    \A r \in Rows :
      /\ rowtype0[r] =
           (IF lp.row_lower[r] = lp.row_upper[r] THEN kEq
            ELSE IF RGt(LowerSlack(r), feastol) /\ RGt(UpperSlack(r), feastol)
                 THEN kUnusuable
            ELSE IF RLt(LowerSlack(r), UpperSlack(r)) THEN kGeq
            ELSE kLeq)
      /\ (/\ lp.row_lower[r] # lp.row_upper[r]
          /\ LowerSlack(r) = UpperSlack(r)
          /\ ~RGt(LowerSlack(r), feastol)) => rowtype0[r] = kLeq
      /\ (lp.row_lower[r] = <<-1, 0>> /\ lp.row_upper[r] = <<1, 0>>)
           => rowtype0[r] = kUnusuable

\* a classified relaxation with a row of equal slacks within the tolerance,
\* a free row and an equality row
C14_Witness ==
  /\ pc = "count"
  /\ \E r \in Rows :
       /\ lp.row_lower[r] # lp.row_upper[r]
       /\ LowerSlack(r) = UpperSlack(r)
       /\ rowtype0[r] = kLeq
  /\ \E r \in Rows :
       /\ lp.row_lower[r] = <<-1, 0>>
       /\ lp.row_upper[r] = <<1, 0>>
       /\ rowtype0[r] = kUnusuable
  /\ \E r \in Rows : rowtype0[r] = kEq

\* the rows classified as equality whose only eligible continuous column is c
SingleRows(c) == {r \in Rows : rowtype0[r] = kEq /\ EligibleCols(r) = {c}}

\* C15 as stated: after the substitution detection every row that was
\* classified as equality and holds exactly one eligible continuous column is
\* unusable, also when the substitution of its column had been recorded from
\* an earlier row.
C15_EverySingleRowUnusable ==
  Detected =>
    \A c \in Cols : \A r \in SingleRows(c) : rowtype[r] = kUnusuable

\* C15: after the substitution detection a row that was classified as
\* equality and holds exactly one eligible continuous column is unusable if
\* and only if it is the first such row of its column, the one recorded as
\* the column's substitution; a later such row of the same column keeps the
\* equality kind and is taken up as a seed row.
C15_FirstSingleRowUnusable ==
  Detected =>
    \A c \in Cols : \A r \in SingleRows(c) :
      LET first == \A q \in SingleRows(c) : r <= q
      IN /\ first => (rowtype[r] = kUnusuable /\ colSubstitutions[c][1] = r)
         /\ ~first => (rowtype[r] = kEq /\ colSubstitutions[c][1] < r
                                        /\ colSubstitutions[c][1] \in SingleRows(c))
         /\ (~first /\ pc = "done") =>
              \E k \in 1 .. Len(trace) :
                trace[k].how = "seed" /\ trace[k].row = r

\* a call has returned in which two equality rows had the same column as
\* their only eligible one: the first was substituted, the second was a seed
C15_Witness ==
  /\ pc = "done"
  /\ \E c \in Cols : \E r1, r2 \in SingleRows(c) :
       /\ r1 < r2
       /\ rowtype[r1] = kUnusuable
       /\ rowtype[r2] = kEq
       /\ \E k \in 1 .. Len(trace) : trace[k].how = "seed" /\ trace[k].row = r2
       /\ \E k \in 1 .. Len(trace) : trace[k].how = "subst" /\ trace[k].row = r1

\* C16: every recorded substitution of a column by a row with a pivot has a
\* continuous column with nonzero bound distance, a row that was classified
\* as equality and holds that column as its only eligible continuous column,
\* a nonzero pivot equal to the column's coefficient in that row, and a row
\* whose final kind is unusable; no row is the substitution source of two
\* columns; and every continuous column with nonzero bound distance that is
\* the only eligible continuous column of some equality row has a recorded
\* substitution.
C16_SubstitutionsSound ==
  Detected =>
    /\ \A c \in Cols :
         colSubstitutions[c][1] # -1 =>
           LET r == colSubstitutions[c][1]
           IN /\ lp.type[c] = "C"
              /\ lp.dist[c] # <<0, 1>>
              /\ r \in Rows
              /\ rowtype0[r] = kEq
              /\ lp.a[r][c].nz
              /\ \A d \in Cols \ {c} :
                   ~(lp.a[r][d].nz /\ lp.type[d] = "C" /\ lp.dist[d] # <<0, 1>>)
              /\ colSubstitutions[c][2] = <<lp.a[r][c].v, 1>>
              /\ colSubstitutions[c][2][1] # 0
              /\ rowtype[r] = kUnusuable
    /\ \A c1, c2 \in Cols :
         (c1 # c2 /\ colSubstitutions[c1][1] # -1) =>
           colSubstitutions[c1][1] # colSubstitutions[c2][1]
    /\ \A c \in Cols :
         (\E r \in Rows : rowtype0[r] = kEq /\ EligibleCols(r) = {c}) =>
           colSubstitutions[c][1] # -1

\* column c has arc lists: continuous, off its bound, not substituted
ArcColumn(c) ==
  lp.type[c] = "C" /\ lp.dist[c] # <<0, 1>> /\ colSubstitutions[c][1] = -1

\* the weight a row of kind rt is seeded with, as an integer
WeightOf(rt) == IF rt = kLeq THEN -1 ELSE 1

\* C17: for every stored entry of a column with arc lists in a usable row:
\* in a LessOrEqual row the entry is an in-arc exactly when the coefficient is
\* negative and an out-arc otherwise; in a GreaterOrEqual or Equality row it
\* is an in-arc exactly when the coefficient is positive and an out-arc
\* otherwise.  Equivalently the in-arcs are the entries whose coefficient is
\* positive after the row is multiplied by its seed weight.
C17_SignConvention ==
  ArcsBuilt =>
    \A c \in Cols : ArcColumn(c) =>
      \A r \in Incidence(c) : rowtype[r] # kUnusuable =>
        LET v     == lp.a[r][c].v
            isIn  == Occurrences(inArcRows, colInArcs[c], r) = 1
            isOut == Occurrences(outArcRows, colOutArcs[c], r) = 1
        IN /\ isIn # isOut
           /\ rowtype[r] = kLeq => (isIn <=> v < 0)
           /\ rowtype[r] \in {kGeq, kEq} => (isIn <=> v > 0)
           /\ isIn <=> WeightOf(rowtype[r]) * v > 0

\* the arc lists hold an in-arc of a <= row (negative coefficient), an
\* in-arc of an == row (positive coefficient), an out-arc of a >= row and an
\* out-arc with the coefficient zero
C17_Witness ==
  /\ pc = "seed"
  /\ \E k \in 1 .. Len(inArcRows) :
       rowtype[inArcRows[k][1]] = kLeq /\ RLt(inArcRows[k][2], Zero)
  /\ \E k \in 1 .. Len(inArcRows) :
       rowtype[inArcRows[k][1]] = kEq /\ RGt(inArcRows[k][2], Zero)
  /\ \E k \in 1 .. Len(outArcRows) :
       rowtype[outArcRows[k][1]] = kGeq /\ RLt(outArcRows[k][2], Zero)
  /\ \E k \in 1 .. Len(outArcRows) : outArcRows[k][2] = Zero

\* the rows in column c's range of the in-arc table
InArcRowsOf(c) ==
  {inArcRows[k][1] : k \in colInArcs[c][1] + 1 .. colInArcs[c][2]}

\* the usable rows that store column c
UsableIncidence(c) == {r \in Incidence(c) : rowtype[r] # kUnusuable}

\* C18: as the comment on the arc lists says, the in-arc rows of a
\* continuous column with nonzero transformed value are the <= rows and ==
\* rows in which it has a positive coefficient, and the >= rows, treated as
\* <= rows of reversed sign, in which it has a negative coefficient.
C18_InArcsAsCommented ==
  ArcsBuilt =>
    \A c \in Cols : ArcColumn(c) =>
      InArcRowsOf(c) =
        {r \in UsableIncidence(c) :
           \/ rowtype[r] \in {kLeq, kEq} /\ lp.a[r][c].v > 0
           \/ rowtype[r] = kGeq /\ lp.a[r][c].v < 0}

\* entry k of the history is an invocation of the cut generator on the given
\* form of the aggregation; the w field of the entry is the rhs handed in
IsAttempt(k, form) ==
  /\ k \in 1 .. Len(trace)
  /\ trace[k].op = "generateCut"
  /\ trace[k].how = form

\* entry k of the history is a read of the aggregation in the given form
IsRead(k, form) ==
  /\ k \in 1 .. Len(trace)
  /\ trace[k].op = "read"
  /\ trace[k].how = form

Succeeded(k) == trace[k].op = "generateCut" /\ trace[k].ok

\* the entries of the history that belong to the path being built: those
\* after the last clear
CurrentPath ==
  {k \in 1 .. Len(trace) : \A j \in k .. Len(trace) : trace[j].op # "clear"}

\* the path of the current seed row has ended without a row to fold in at
\* lines 250-305, or with maxPathLen rows at line 189
EndedWithoutCut ==
  /\ pc = "clear"
  /\ \/ scanned # <<>>
     \/ Last(trace).op = "addRow" /\ currPathLen = maxPathLen

\* C20: once a cut generation attempt has succeeded for a seed row, no row is
\* folded in and no attempt is made before the aggregator is cleared for the
\* next seed row; so a seed row has at most one successful attempt, and a
\* path that ends at a dead end of the extension or at the maximum length
\* has had none.
C20_SuccessEndsPath ==
  /\ \A k \in 1 .. Len(trace) :
       Succeeded(k) =>
         \A m \in k + 1 .. Len(trace) :
           trace[m].op \in {"addRow", "generateCut"} =>
             \E j \in k + 1 .. m - 1 : trace[j].op = "clear"
  /\ Cardinality({k \in CurrentPath : Succeeded(k)}) <= 1
  /\ EndedWithoutCut => \A k \in CurrentPath : ~Succeeded(k)

\* a path has ended at a dead end of the extension, after an earlier seed
\* row of the same call had a successful attempt on a path of two rows
C20_Witness ==
  /\ EndedWithoutCut
  /\ scanned # <<>>
  /\ \E k \in 1 .. Len(trace) :
       /\ Succeeded(k)
       /\ \E m \in 1 .. k - 1 : trace[m].how = "ext"

\* column c is one the scan of lines 202-213 substitutes: non-integral, off
\* its bound, with a recorded substitution
SubstitutedColumn(c) ==
  lp.type[c] = "C" /\ lp.dist[c] # <<0, 1>> /\ colSubstitutions[c][1] # -1

\* entry k of the history folds in a substitution row
IsSubstitution(k) ==
  /\ k \in 1 .. Len(trace)
  /\ trace[k].op = "addRow"
  /\ trace[k].how = "subst"

\* C21: whenever the cut generator is invoked the aggregated row has no
\* nonzero entry on a non-integral column off its bound that has a recorded
\* substitution; an iteration that applies a substitution invokes neither the
\* cut generator nor a path extension (the next thing after its substitution
\* rows is the read of the next iteration) and leaves the path length as it
\* was.
C21_NoSubstitutedColumnInCut ==
  /\ pc = "cut" => \A c \in Cols : SubstitutedColumn(c) => lpAggregator[c] = Zero
  /\ \A k \in 1 .. Len(trace) :
       IsSubstitution(k) =>
         IF k = Len(trace) THEN pc = "loop"
         ELSE IsSubstitution(k + 1) \/ IsRead(k + 1, "raw")
  /\ \A k \in 1 .. Len(trace) :
       IsAttempt(k, "raw") => ~IsSubstitution(k - 1)
  /\ pc \in {"loop", "cut", "extend"} => currPathLen = Len(FoldedRows(path))

\* the cut generator is about to be invoked on a path that folded in a
\* substitution row for a column its seed row holds
C21_Witness ==
  /\ pc = "cut"
  /\ \E k \in 1 .. Len(path) :
       /\ path[k].how = "subst"
       /\ \E c \in Cols :
            /\ SubstitutedColumn(c)
            /\ colSubstitutions[c][1] = path[k].row
            /\ lp.a[path[1].row][c].nz

\* the coefficient of index c in the row read at line 190
SnapshotVal(c) ==
  IF \E j \in 1 .. Len(baseRowInds) : baseRowInds[j] = c
  THEN baseRowVals[CHOOSE j \in 1 .. Len(baseRowInds) : baseRowInds[j] = c]
  ELSE Zero

\* the iteration that has just ended folded in substitution rows
JustSubstituted == pc = "loop" /\ path # <<>> /\ Last(path).how = "subst"

\* the substitution rows of the last iteration: the entries of the history
\* after its last read
LastSubstitutions ==
  {k \in 1 .. Len(trace) : \A j \in k .. Len(trace) : trace[j].how = "subst"}

\* C22: after an iteration that applied substitutions the aggregated row has
\* coefficient exactly zero on every column substituted in it, also when
\* several substitution rows were folded in with weights taken from the one
\* row read at the start of the iteration: each weight is minus the column's
\* coefficient in that row over the pivot; and no substitution row has
\* changed the coefficient of another eligible continuous column.
C22_SubstitutionCancels ==
  JustSubstituted =>
    /\ \A k \in LastSubstitutions :
         \E c \in Cols :
           /\ SubstitutedColumn(c)
           /\ colSubstitutions[c][1] = trace[k].row
           /\ SnapshotVal(c) # Zero
           /\ trace[k].w = RDiv(RNeg(SnapshotVal(c)), colSubstitutions[c][2])
           /\ lpAggregator[c] = Zero
    /\ \A c \in Cols :
         (lp.type[c] = "C" /\ lp.dist[c] # <<0, 1>> /\ colSubstitutions[c][1] = -1)
           => lpAggregator[c] = SnapshotVal(c)

\* the positions of the row read at line 190 whose column is non-integral,
\* off its bound and without a recorded substitution, has a negative
\* (neg) or a non-negative coefficient, and a non-empty range in the table
\* the extension would scan
CandidatePositions(neg) ==
  {j \in 1 .. Len(baseRowInds) :
     LET c == baseRowInds[j]
     IN /\ c < NumCol
        /\ lp.type[c] = "C"
        /\ lp.dist[c] # <<0, 1>>
        /\ colSubstitutions[c][1] = -1
        /\ IF neg
           THEN RLt(baseRowVals[j], Zero) /\ colInArcs[c][1] # colInArcs[c][2]
           ELSE ~RLt(baseRowVals[j], Zero) /\ colOutArcs[c][1] # colOutArcs[c][2]}

\* the first of these positions among those with the largest bound distance
BestPosition(neg) ==
  CHOOSE j \in CandidatePositions(neg) :
    /\ \A m \in CandidatePositions(neg) :
         RLe(lp.dist[baseRowInds[m]], lp.dist[baseRowInds[j]])
    /\ \A m \in CandidatePositions(neg) :
         lp.dist[baseRowInds[m]] = lp.dist[baseRowInds[j]] => j <= m

\* C23: in a round without substitution the out-arc candidate is, among the
\* columns of the aggregated row that are non-integral, off their bound,
\* without recorded substitution, with a negative coefficient and a non-empty
\* in-arc range, the first one in row order with the largest bound distance,
\* and there is none if there is no such column; the in-arc candidate is the
\* same with a non-negative coefficient and a non-empty out-arc range.  A
\* substituted column, an integral column or a column at its bound is never a
\* candidate.
C23_Candidates ==
  pc = "cut" =>
    /\ IF CandidatePositions(TRUE) = {} THEN bestOutArcCol = -1
       ELSE /\ bestOutArcCol = baseRowInds[BestPosition(TRUE)]
            /\ outArcColVal = baseRowVals[BestPosition(TRUE)]
            /\ outArcColBoundDist = lp.dist[bestOutArcCol]
    /\ IF CandidatePositions(FALSE) = {} THEN bestInArcCol = -1
       ELSE /\ bestInArcCol = baseRowInds[BestPosition(FALSE)]
            /\ inArcColVal = baseRowVals[BestPosition(FALSE)]
            /\ inArcColBoundDist = lp.dist[bestInArcCol]
    /\ \A c \in {bestOutArcCol, bestInArcCol} \ {-1} :
         lp.type[c] = "C" /\ lp.dist[c] # <<0, 1>> /\ colSubstitutions[c][1] = -1

\* a round in which two columns with the same bound distance compete for one
\* candidate and the other candidate exists as well
C23_Witness ==
  /\ pc = "cut"
  /\ \E neg \in BOOLEAN :
       /\ \E j, m \in CandidatePositions(neg) :
            j # m /\ lp.dist[baseRowInds[j]] = lp.dist[baseRowInds[m]]
       /\ CandidatePositions(~neg) # {}

\* the in-arc candidate's bound distance exceeds the out-arc candidate's by
\* more than the tolerance
InExceedsOut ==
  RGt(RSub(inArcColBoundDist, outArcColBoundDist), feastol)

\* C24: when a path is extended the out-arc candidate's in-arc list is
\* scanned first unless there is no out-arc candidate or the in-arc
\* candidate's bound distance exceeds the out-arc candidate's by more than
\* the tolerance, and then the in-arc candidate's out-arc list is scanned
\* first; equal bound distances and differences of at most the tolerance
\* choose the out-arc candidate.
C24_OutArcPreferred ==
  Extended =>
    /\ (bestOutArcCol = -1 \/ InExceedsOut) <=> scanned[1] = bestInArcCol
    /\ ~(bestOutArcCol = -1 \/ InExceedsOut) <=> scanned[1] = bestOutArcCol
    /\ scanned[1] # -1
    /\ (/\ bestOutArcCol # -1
        /\ bestInArcCol # -1
        /\ RLe(RSub(inArcColBoundDist, outArcColBoundDist), feastol))
         => scanned[1] = bestOutArcCol

\* an extension with both candidates, the in-arc candidate's bound distance
\* larger by exactly the tolerance: the out-arc candidate was taken first
C24_Witness ==
  /\ Extended
  /\ bestOutArcCol # -1
  /\ bestInArcCol # -1
  /\ RSub(inArcColBoundDist, outArcColBoundDist) = feastol
  /\ scanned[1] = bestOutArcCol

\* the extension of lines 250-305 has just folded in a row
JustExtended == pc = "loop" /\ Extended /\ FoldedNow

\* the column whose arc list gave that row, and its coefficient as the scan
\* of lines 202-234 recorded it
ChosenColumn == Last(scanned)

ChosenColVal ==
  IF ChosenColumn = bestOutArcCol THEN outArcColVal ELSE inArcColVal

\* C25: after every path extension the aggregated row has coefficient exactly
\* zero on the column the extension row was chosen for: the weight is minus
\* the column's coefficient in the as-is aggregation read at the start of the
\* round over the column's coefficient in the chosen row, also when the row
\* was found in the list reached from the out-arc scan.
C25_ExtensionCancels ==
  JustExtended =>
    LET c  == ChosenColumn
        ev == Last(path)
    IN /\ c \in Cols
       /\ lp.a[ev.row][c].nz
       /\ lp.a[ev.row][c].v # 0
       /\ ChosenColVal = RNeg(SnapshotVal(c))
       /\ ChosenColVal # Zero
       /\ ev.w = RDiv(RNeg(ChosenColVal), <<lp.a[ev.row][c].v, 1>>)
       /\ lpAggregator[c] = Zero

\* a row was folded in from the in-arc candidate's out-arc list after the
\* out-arc candidate's in-arc list had given none
C25_Witness ==
  /\ JustExtended
  /\ Len(scanned) = 2
  /\ ChosenColumn = bestInArcCol
  /\ Last(path).w \notin {<<1, 1>>, <<-1, 1>>}

\* the arc list the extension row came from: the entries of the chosen
\* column's range of the in-arc or the out-arc table
ScannedList ==
  IF ChosenColumn = bestOutArcCol
  THEN [k \in 1 .. colInArcs[ChosenColumn][2] - colInArcs[ChosenColumn][1] |->
          inArcRows[colInArcs[ChosenColumn][1] + k]]
  ELSE [k \in 1 .. colOutArcs[ChosenColumn][2] - colOutArcs[ChosenColumn][1] |->
          outArcRows[colOutArcs[ChosenColumn][1] + k]]

\* the weight and the score of entry k of that list
WeightAt(k) == RDiv(RNeg(ChosenColVal), ScannedList[k][2])

ScoreAt(k) == RAbs(RMul(WeightAt(k), lp.row_dual[ScannedList[k][1]]))

\* the entries of that list whose weight lies in the band of safe weights
QualifyingEntries == {k \in 1 .. Len(ScannedList) : InBand(WeightAt(k))}

\* C26: the row folded in by a path extension has the highest score
\* |weight x row dual| among the rows of the scanned arc list whose weight
\* lies in the safe band, up to the tie band: whatever bits were drawn its
\* score is not lower than the largest qualifying score by more than the
\* tolerance, and a qualifying row whose score exceeds every other qualifying
\* score by more than the tolerance is the one chosen.
C26_HighestScore ==
  JustExtended =>
    LET ev     == Last(path)
        chosen == RAbs(RMul(ev.w, lp.row_dual[ev.row]))
    IN /\ \A k \in QualifyingEntries : RGe(chosen, RSub(ScoreAt(k), feastol))
       /\ \A k \in QualifyingEntries :
            (\A m \in QualifyingEntries \ {k} :
               RGt(ScoreAt(k), RAdd(ScoreAt(m), feastol)))
              => ScannedList[k][1] = ev.row

\* the call has counted the continuous columns of its rows
Counted == pc \notin {"start", "classify", "count"}

\* the rows the detection of lines 85-113 scans: classified as equality and
\* counted with one continuous column off its bound
ScannedRows == {r \in Rows : rowtype0[r] = kEq /\ numContinuous[r] = 1}

\* C27: with the row view and the column view describing the same matrix and
\* continuous_cols holding exactly the continuous columns, the scan of every
\* equality row counted with exactly one eligible continuous incidence stops
\* at a position inside the row whose column is continuous with a positive
\* bound distance: both assertions hold and no entry past the end of the row
\* is read.
C27_ScanStopsInsideRow ==
  Counted =>
    \A r \in ScannedRows :
      LET row == getRow(r)
          j   == ScanRow(row, 1)
      IN /\ j \in 1 .. Len(row)
         /\ lp.type[row[j][1]] = "C"
         /\ RGt(lp.dist[row[j][1]], <<0, 1>>)
         /\ \A m \in 1 .. j - 1 :
              lp.type[row[m][1]] # "C" \/ lp.dist[row[m][1]] = <<0, 1>>

\* two rows were scanned: in one the scan passed over an integer column, in
\* the other over a continuous column at its bound, before it stopped
C27_Witness ==
  /\ pc = "arcs"
  /\ \E r \in ScannedRows :
       ScanRow(getRow(r), 1) > 1 /\ lp.type[getRow(r)[1][1]] = "I"
  /\ \E r \in ScannedRows :
       /\ Len(getRow(r)) > ScanRow(getRow(r), 1)
       /\ lp.dist[getRow(r)[Len(getRow(r))][1]] = Zero

\* C28: whenever the path loop reads the arc range of a column to scan for an
\* extension row, the column is a candidate of the current round: no range
\* is read at index -1, neither in the branch of the out-arc candidate nor in
\* the branch of the in-arc candidate, also when that branch is entered by
\* the jump after the out-arc scan found no qualifying row.
C28_NoReadAtMinusOne ==
  \A k \in 1 .. Len(scanned) :
    /\ scanned[k] # -1
    /\ scanned[k] \in {bestOutArcCol, bestInArcCol}

\* C29: every row folded in as a seed or as a path extension is folded in
\* with a weight whose sign agrees with its kind: negative for a LessOrEqual
\* row, positive for a GreaterOrEqual row and for an Equality row, in the
\* branch of the out-arc candidate and in that of the in-arc candidate.
C29_WeightSignMatchesKind ==
  \A k \in 1 .. Len(trace) :
    (trace[k].op = "addRow" /\ trace[k].how \in {"seed", "ext"}) =>
      /\ trace[k].w[2] > 0
      /\ rowtype[trace[k].row] = kLeq => trace[k].w[1] < 0
      /\ rowtype[trace[k].row] \in {kGeq, kEq} => trace[k].w[1] > 0
      /\ rowtype[trace[k].row] # kUnusuable

\* a path whose seed is a <= row took a >= row from the out-arc candidate's
\* list and then, in a later round, an == or <= row from the in-arc
\* candidate's list
C29_Witness ==
  /\ JustExtended
  /\ ChosenColumn = bestInArcCol
  /\ rowtype[Last(path).row] \in {kEq, kLeq}
  /\ Len(path) >= 3
  /\ rowtype[path[1].row] = kLeq
  /\ \E k \in 2 .. Len(path) - 1 :
       path[k].how = "ext" /\ rowtype[path[k].row] = kGeq

\* the cut generation attempts on the as-is form made for the current seed
\* row: one per round that reached the cut generation
RoundsWithCut == {k \in CurrentPath : IsAttempt(k, "raw")}

\* C30: the cut generator is only invoked on aggregations of at most 5 seed
\* and extension rows, in at most 5 rounds per seed row; once the sixth row
\* is folded in the loop is left and the aggregator is cleared, and the
\* aggregation of 6 rows is not read, not substituted into and not handed to
\* the cut generator.
C30_NoCutOnSixRows ==
  /\ pc = "cut" => Len(FoldedRows(path)) <= 5
  /\ path # <<>> => Cardinality(RoundsWithCut) <= 5
  /\ Len(FoldedRows(path)) = 6 =>
       /\ pc \in {"loop", "clear"}
       /\ ~LoopContinues(currPathLen)
       /\ Last(path).how = "ext"
       /\ Last(trace) = Last(path)

\* the sixth row of a path has been folded in after five rounds with cut
\* generation and the loop is left with nothing read since
C30_Witness ==
  /\ pc = "clear"
  /\ Len(FoldedRows(path)) = 6
  /\ Cardinality(RoundsWithCut) = 5
  /\ Last(trace).how = "ext"

====
